---------------------------- MODULE Spec2Model ----------------------------
(***************************************************************************)
(* The reporting hook useReports (src/src/hooks/useReports.ts) over the    *)
(* supabase tables it reads, together with the forms that write those      *)
(* tables.                                                                 *)
(*                                                                         *)
(* Time is in milliseconds since the epoch, as Date.getTime() returns it;  *)
(* the model's instants are whole multiples of half a day.  A JS number    *)
(* that results from a division is a fraction [num, den] in lowest terms   *)
(* (an IEEE division is the correctly rounded quotient, so equal quotients *)
(* are equal numbers); den = 0 stands for the non-finite results NaN       *)
(* (num = 0) and Infinity (num = 1, -1).                                   *)
(***************************************************************************)
EXTENDS Integers, Sequences, FiniteSets, TLC

VARIABLES
    store,          \* the supabase tables: table name -> sequence of rows
    now,            \* the wall clock, new Date().getTime()
    dateRange,      \* the hook's argument: [startDate, endDate]
    effectPending,  \* the effect of useEffect(..., [dateRange]) is scheduled
    supplied,       \* number of dateRange values the caller has supplied
    reqs,           \* the invocations of fetchReportData, oldest first
    metrics,        \* useState<ReportMetrics>
    activities,     \* useState<ReportActivities>
    loading,        \* useState(true)
    error,          \* useState<Error | null>; "" is null
    lastToast,      \* the last toast shown; "" is none
    errorClass,     \* what the client library's PostgrestError is: a plain
                    \* "object", or an "Error" (an instance of Error)
    form,           \* the DischargeForm on screen, if any
    loggedIn,       \* localStorage holds an item 'user'
    route,          \* the last route navigated to; "" is none
    previousRange,  \* the previous window the caller supplied, if any
    report,         \* the ReportData last assembled, if any
    pdf,            \* the calls generatePDF made on its jsPDF document
    admits          \* the AdmitPatientForm of each browser session

\* The state of useReports, and of the discharge form and its page.
hookVars == <<dateRange, effectPending, supplied, reqs, metrics, activities,
              loading, error>>
formVars == <<form, loggedIn, route>>
\* The state of the report page and of the admission forms.
pageVars == <<previousRange, report, pdf, admits>>

vars == <<store, now, errorClass, lastToast, hookVars, formVars, pageVars>>

---------------------------------------------------------------------------
(* Bounds of the model. *)

\* Requests a behaviour starts (dateRange values supplied).
MaxReq == 2
\* Fetch responses that carry an error, over a whole behaviour.
MaxErrors == 1
\* The clock runs over the half days 0 .. MaxTick.
MaxTick == 3
\* Rows of the patients table drawn for the computations.
MaxPatients == 2
\* Rows of the discharges table drawn for the computations.
MaxDischarges == 2
\* Rows of each of medications, lab_results, vitals drawn for the computations.
MaxOther == 1
\* Fetch responses without an error and without data, over a whole behaviour.
MaxNoData == 1
\* Rows of the patients table at which a form is still submitted.
MaxAdmitted == 2

---------------------------------------------------------------------------
(* Program constants. *)

MsPerDay == 86400000
totalBeds == 50
NumFetches == 5
TopN == 5

HalfDay == MsPerDay \div 2
TimeOf(k) == k * HalfDay
Times == {TimeOf(k) : k \in 0..MaxTick}

\* The queries of Promise.all, in the order of the array.
Tables == <<"patients", "medications", "lab_results", "discharges", "vitals">>
TableNames == {Tables[i] : i \in 1..NumFetches}

\* The column each query filters on.
DateColumn(t) ==
    CASE t = "patients"   -> "admission_date"
      [] t = "discharges" -> "discharge_date"
      [] OTHER            -> "created_at"

---------------------------------------------------------------------------
(* Numbers. *)

Abs(x) == IF x < 0 THEN -x ELSE x
Sign(x) == IF x < 0 THEN -1 ELSE IF x > 0 THEN 1 ELSE 0
Max(a, b) == IF a >= b THEN a ELSE b
Min(a, b) == IF a <= b THEN a ELSE b

RECURSIVE GCD(_, _)
GCD(a, b) == IF b = 0 THEN a ELSE GCD(b, a % b)

\* The JS quotient a / b.
Div(a, b) ==
    IF b = 0 THEN [num |-> Sign(a), den |-> 0]
    ELSE LET g == GCD(Abs(a), Abs(b))
         IN  [num |-> Sign(b) * (a \div g), den |-> Abs(b) \div g]

Zero == [num |-> 0, den |-> 1]
IsFinite(q) == q.den > 0
\* q = a / b as numbers, for b > 0.
EqualsRatio(q, a, b) == IsFinite(q) /\ q.num * b = a * q.den

RECURSIVE SumSeq(_)
SumSeq(s) == IF s = <<>> THEN 0 ELSE Head(s) + SumSeq(Tail(s))

---------------------------------------------------------------------------
(* Arrays and objects. *)

Range(s) == {s[i] : i \in DOMAIN s}

\* The first occurrence of each element of s, in order.
FirstSeen(s) ==
    LET first == {i \in DOMAIN s : \A j \in 1..(i - 1) : s[j] # s[i]}
    IN  [k \in 1..Cardinality(first) |->
            s[CHOOSE i \in first : Cardinality({j \in first : j < i}) = k - 1]]

\* The value of a property name that is a canonical array index ("0", "7",
\* "12"), and -1 for every other name, over the names the model draws.
ArrayIndex(k) ==
    CASE k = "0"  -> 0
      [] k = "7"  -> 7
      [] k = "12" -> 12
      [] OTHER    -> -1

\* The names of ks in ascending order of their array index.
RECURSIVE SortIndexKeys(_)
SortIndexKeys(ks) ==
    IF ks = {} THEN <<>>
    ELSE LET k == CHOOSE x \in ks : \A y \in ks : ArrayIndex(x) <= ArrayIndex(y)
         IN  <<k>> \o SortIndexKeys(ks \ {k})

\* The order in which Object.entries lists the properties of an object
\* whose properties were created in the order of `inserted`: array-index
\* names first, ascending, then the other names in creation order.
OwnKeys(inserted) ==
    LET seen == FirstSeen(inserted)
    IN  SortIndexKeys({k \in Range(seen) : ArrayIndex(k) >= 0})
          \o SelectSeq(seen, LAMBDA k : ArrayIndex(k) < 0)

\* acc[key] after rows.reduce((acc, curr) => { acc[curr[col]] =
\* (acc[curr[col]] || 0) + 1; ... }, {}); 0 stands for an absent property.
CountOf(rows, col, key) == Cardinality({i \in DOMAIN rows : rows[i][col] = key})

\* Object.entries of that accumulator, as [name, count] pairs.
CountEntries(rows, col) ==
    LET keys == OwnKeys([i \in DOMAIN rows |-> rows[i][col]])
    IN  [i \in DOMAIN keys |-> [name |-> keys[i], count |-> CountOf(rows, col, keys[i])]]

\* s with x put after the last element whose count is >= x.count.
RECURSIVE InsertDesc(_, _)
InsertDesc(s, x) ==
    IF s = <<>> THEN <<x>>
    ELSE IF s[Len(s)].count >= x.count THEN Append(s, x)
         ELSE Append(InsertDesc(SubSeq(s, 1, Len(s) - 1), x), s[Len(s)])

\* entries.sort(([, a], [, b]) => b - a): a stable sort, counts descending.
RECURSIVE SortByCountDesc(_)
SortByCountDesc(s) ==
    IF s = <<>> THEN <<>>
    ELSE InsertDesc(SortByCountDesc(SubSeq(s, 1, Len(s) - 1)), s[Len(s)])

\* Array.prototype.slice(0, n).
Slice(s, n) == SubSeq(s, 1, Min(n, Len(s)))

\* format(date, 'yyyy-MM-dd'): the calendar date of an instant.
DateOf(t) == t \div MsPerDay

---------------------------------------------------------------------------
(* The computations of fetchReportData over the five fetched collections:  *)
(* patients, medications, labResults, discharges, vitals.                  *)

\* The distribution with the most frequent status first.
statusDistributionByCount(patients) ==
    SortByCountDesc(CountEntries(patients, "status"))

statusDistribution(patients) == CountEntries(patients, "status")

\* Counting the rows of the very instant, not of the calendar date.
CountTodayByInstant(rows, col, today) ==
    Cardinality({i \in DOMAIN rows : rows[i][col] = today})

\* rows.filter(r => format(new Date(r[col]), ..) === format(today, ..)).length
CountToday(rows, col, today) ==
    Cardinality({i \in DOMAIN rows : DateOf(rows[i][col]) = DateOf(today)})

diagnosesCount(patients) == CountEntries(patients, "diagnosis")

\* The first five diagnoses, without the sort.
sortedDiagnosesUnsorted(patients) == Slice(diagnosesCount(patients), TopN)

sortedDiagnoses(patients) == Slice(SortByCountDesc(diagnosesCount(patients)), TopN)

occupiedBeds(patients) ==
    Cardinality({i \in DOMAIN patients : patients[i].status # "Discharged"})

\* The rate capped at 1.
bedOccupancyRateCapped(patients) ==
    Div(Min(occupiedBeds(patients), totalBeds), totalBeds)

bedOccupancyRate(patients) == Div(occupiedBeds(patients), totalBeds)

\* The discharge condition the mortality computation counts.
DeceasedSentinel == "Deceased"

\* Counting every discharge that is not 'Improved'.
deceasedDischargesNotImproved(discharges) ==
    Cardinality({i \in DOMAIN discharges :
                    discharges[i].discharge_condition # "Improved"})

deceasedDischarges(discharges) ==
    Cardinality({i \in DOMAIN discharges :
                    discharges[i].discharge_condition = DeceasedSentinel})

\* discharges.length, without || 1.
mortalityDenominatorRaw(discharges) == Len(discharges)

\* discharges.length || 1
mortalityDenominator(discharges) ==
    IF Len(discharges) = 0 THEN 1 ELSE Len(discharges)

mortalityRate(discharges) ==
    Div(deceasedDischarges(discharges), mortalityDenominator(discharges))

patientAdmissions(patients) == CountEntries(patients, "mrn")

\* Counting the admissions, not the MRNs, that repeat.
readmissionsByRecord(patients) ==
    Cardinality({i \in DOMAIN patients :
                    CountOf(patients, "mrn", patients[i].mrn) > 1})

\* Object.values(patientAdmissions).filter(count => count > 1).length
readmissions(patients) ==
    Len(SelectSeq(patientAdmissions(patients), LAMBDA e : e.count > 1))

\* patients.length, without || 1.
readmissionDenominatorRaw(patients) == Len(patients)

\* patients.length || 1
readmissionDenominator(patients) ==
    IF Len(patients) = 0 THEN 1 ELSE Len(patients)

readmissionRate(patients) ==
    Div(readmissions(patients), readmissionDenominator(patients))

\* patients.find(p => p.id === id): the index of the first match, 0 if none.
FindPatient(patients, id) ==
    IF \E i \in DOMAIN patients : patients[i].id = id
    THEN CHOOSE i \in DOMAIN patients :
            /\ patients[i].id = id
            /\ \A j \in 1..(i - 1) : patients[j].id # id
    ELSE 0

\* One stay, in milliseconds: the numerator of the division by
\* (1000 * 60 * 60 * 24), and 0 for a discharge without its patient.
StayMs(patients, d) ==
    LET i == FindPatient(patients, d.patient_id)
    IN  IF i = 0 THEN 0 ELSE d.discharge_date - patients[i].admission_date

\* stayDurations, each in milliseconds.
stayDurations(patients, discharges) ==
    [i \in DOMAIN discharges |-> StayMs(patients, discharges[i])]

\* The mean over the discharges that have their patient only.
averageStayDurationMatched(patients, discharges) ==
    LET matched == SelectSeq(discharges,
                             LAMBDA d : FindPatient(patients, d.patient_id) # 0)
    IN  IF Len(matched) # 0
        THEN Div(SumSeq(stayDurations(patients, matched)), MsPerDay * Len(matched))
        ELSE Zero

\* stayDurations.length ? sum / stayDurations.length : 0, in days.
averageStayDuration(patients, discharges) ==
    IF Len(discharges) # 0
    THEN Div(SumSeq(stayDurations(patients, discharges)), MsPerDay * Len(discharges))
    ELSE Zero

\* The denominators of the divisions the rates are computed with.
Denominators(patients, discharges) ==
    {mortalityDenominator(discharges), readmissionDenominator(patients)}
      \cup (IF Len(discharges) # 0 THEN {MsPerDay, Len(discharges)} ELSE {})

\* ComputeMetrics with totalPatients taken from the medications.
ComputeMetricsSwapped(patients, medications, labResults, discharges) ==
    [ totalPatients       |-> Len(medications),
      criticalCases       |-> CountOf(patients, "status", "Critical"),
      medicationsGiven    |-> Len(medications),
      labTests            |-> Len(labResults),
      averageStayDuration |-> averageStayDuration(patients, discharges),
      bedOccupancyRate    |-> bedOccupancyRate(patients),
      readmissionRate     |-> readmissionRate(patients),
      mortalityRate       |-> mortalityRate(discharges) ]

\* ComputeMetrics with criticalCases counting every status but 'Stable'.
ComputeMetricsNotStable(patients, medications, labResults, discharges) ==
    [ totalPatients       |-> Len(patients),
      criticalCases       |-> Cardinality({i \in DOMAIN patients :
                                              patients[i].status # "Stable"}),
      medicationsGiven    |-> Len(medications),
      labTests            |-> Len(labResults),
      averageStayDuration |-> averageStayDuration(patients, discharges),
      bedOccupancyRate    |-> bedOccupancyRate(patients),
      readmissionRate     |-> readmissionRate(patients),
      mortalityRate       |-> mortalityRate(discharges) ]

\* The argument of setMetrics.
ComputeMetrics(patients, medications, labResults, discharges) ==
    [ totalPatients       |-> Len(patients),
      criticalCases       |-> CountOf(patients, "status", "Critical"),
      medicationsGiven    |-> Len(medications),
      labTests            |-> Len(labResults),
      averageStayDuration |-> averageStayDuration(patients, discharges),
      bedOccupancyRate    |-> bedOccupancyRate(patients),
      readmissionRate     |-> readmissionRate(patients),
      mortalityRate       |-> mortalityRate(discharges) ]

\* ComputeActivities with the count of Vital Signs taken from the lab results.
ComputeActivitiesVitalsFromLabs(patients, medications, labResults, discharges, vitals, today) ==
    [ patientStatusDistribution |->
        LET e == statusDistribution(patients)
        IN  [i \in DOMAIN e |-> [name |-> e[i].name, value |-> e[i].count]],
      dailyActivities |->
        << [name |-> "Admissions",  value |-> CountToday(patients, "admission_date", today)],
           [name |-> "Discharges",  value |-> CountToday(discharges, "discharge_date", today)],
           [name |-> "Lab Tests",   value |-> CountToday(labResults, "created_at", today)],
           [name |-> "Medications", value |-> CountToday(medications, "created_at", today)] >>,
      topProcedures |->
        << [name |-> "Vital Signs",               count |-> Len(labResults)],
           [name |-> "Lab Tests",                 count |-> Len(labResults)],
           [name |-> "Medication Administration", count |-> Len(medications)],
           [name |-> "Patient Assessment",        count |-> Len(patients)],
           [name |-> "Discharge Planning",        count |-> Len(discharges)] >>,
      commonDiagnoses |-> sortedDiagnoses(patients) ]

\* The argument of setActivities.
ComputeActivities(patients, medications, labResults, discharges, vitals, today) ==
    [ patientStatusDistribution |->
        LET e == statusDistribution(patients)
        IN  [i \in DOMAIN e |-> [name |-> e[i].name, value |-> e[i].count]],
      dailyActivities |->
        << [name |-> "Admissions",  value |-> CountToday(patients, "admission_date", today)],
           [name |-> "Discharges",  value |-> CountToday(discharges, "discharge_date", today)],
           [name |-> "Lab Tests",   value |-> CountToday(labResults, "created_at", today)],
           [name |-> "Medications", value |-> CountToday(medications, "created_at", today)] >>,
      topProcedures |->
        << [name |-> "Vital Signs",               count |-> Len(vitals)],
           [name |-> "Lab Tests",                 count |-> Len(labResults)],
           [name |-> "Medication Administration", count |-> Len(medications)],
           [name |-> "Patient Assessment",        count |-> Len(patients)],
           [name |-> "Discharge Planning",        count |-> Len(discharges)] >>,
      commonDiagnoses |-> sortedDiagnoses(patients) ]

\* useState's initial values.
InitialMetrics ==
    [ totalPatients |-> 0, criticalCases |-> 0, medicationsGiven |-> 0,
      labTests |-> 0, averageStayDuration |-> Zero, bedOccupancyRate |-> Zero,
      readmissionRate |-> Zero, mortalityRate |-> Zero ]

InitialActivities ==
    [ patientStatusDistribution |-> <<>>, dailyActivities |-> <<>>,
      topProcedures |-> <<>>, commonDiagnoses |-> <<>> ]

---------------------------------------------------------------------------
(* The supabase tables and the responses of its queries. *)

\* The rows from the start of window w to before its end.
SelectRowsBeforeEnd(t, w) ==
    SelectSeq(store[t], LAMBDA row :
        /\ row[DateColumn(t)] >= w.startDate
        /\ row[DateColumn(t)] < w.endDate)

\* .gte(col, start).lte(col, end): the rows of table t inside window w.
SelectRows(t, w) ==
    SelectSeq(store[t], LAMBDA row :
        /\ row[DateColumn(t)] >= w.startDate
        /\ row[DateColumn(t)] <= w.endDate)

NoError == [kind |-> "null", message |-> ""]
\* The PostgrestError of a failed query on table t.
PostgrestError(t) == [kind |-> errorClass, message |-> t]

PendingResponse == [arrived |-> FALSE, error |-> NoError, hasData |-> FALSE, data |-> <<>>]
DataResponse(rows) == [arrived |-> TRUE, error |-> NoError, hasData |-> TRUE, data |-> rows]
ErrorResponse(e) == [arrived |-> TRUE, error |-> e, hasData |-> FALSE, data |-> <<>>]
\* { data: null, error: null }
NoDataResponse == [arrived |-> TRUE, error |-> NoError, hasData |-> FALSE, data |-> <<>>]

\* response.data || []
DataOrEmpty(response) == IF response.hasData THEN response.data ELSE <<>>

HasError(response) == response.error # NoError

\* Responses with an error so far.
NumErrors ==
    Cardinality({<<r, t>> \in (DOMAIN reqs) \X TableNames : HasError(reqs[r].resp[t])})

---------------------------------------------------------------------------
(* useReports. *)

AllArrived(r) == \A t \in TableNames : reqs[r].resp[t].arrived

\* The first response, in the order of the if statements, with an error.
FirstError(r) ==
    LET i == CHOOSE i \in 1..NumFetches :
                /\ HasError(reqs[r].resp[Tables[i]])
                /\ \A j \in 1..(i - 1) : ~HasError(reqs[r].resp[Tables[j]])
    IN  reqs[r].resp[Tables[i]].error

Failed(r) == \E t \in TableNames : HasError(reqs[r].resp[t])

\* err instanceof Error ? err : new Error('Failed to fetch report data')
AsError(err) ==
    IF err.kind = "Error" THEN err
    ELSE [kind |-> "Error", message |-> "Failed to fetch report data"]

\* The collection fetchReportData r works on for table t.
Fetched(r, t) == DataOrEmpty(reqs[r].resp[t])

MetricsOf(r) ==
    ComputeMetrics(Fetched(r, "patients"), Fetched(r, "medications"),
                   Fetched(r, "lab_results"), Fetched(r, "discharges"))

ActivitiesOf(r, today) ==
    ComputeActivities(Fetched(r, "patients"), Fetched(r, "medications"),
                      Fetched(r, "lab_results"), Fetched(r, "discharges"),
                      Fetched(r, "vitals"), today)

\* The caller changes the dateRange and renders the hook: the effect is
\* scheduled.
ChangeDateRange(w) ==
    /\ w # dateRange
    /\ ~effectPending
    /\ supplied < MaxReq
    /\ dateRange' = w
    /\ effectPending' = TRUE
    /\ supplied' = supplied + 1
    /\ UNCHANGED <<store, now, errorClass, pageVars, lastToast, formVars>>
    /\ UNCHANGED <<reqs, metrics, activities, loading, error>>

\* fetchReportData without setError(null).
StartFetchKeepError ==
    /\ effectPending
    /\ effectPending' = FALSE
    /\ loading' = TRUE
    /\ reqs' = Append(reqs, [dateRange |-> dateRange,
                             resp |-> [t \in TableNames |-> PendingResponse],
                             pc |-> "await"])
    /\ UNCHANGED <<store, now, errorClass, pageVars, lastToast, formVars>>
    /\ UNCHANGED <<dateRange, supplied, metrics, activities, error>>

\* The effect runs: fetchReportData up to its await.
StartFetch ==
    /\ effectPending
    /\ effectPending' = FALSE
    /\ loading' = TRUE
    /\ error' = NoError
    /\ reqs' = Append(reqs, [dateRange |-> dateRange,
                             resp |-> [t \in TableNames |-> PendingResponse],
                             pc |-> "await"])
    /\ UNCHANGED <<store, now, errorClass, pageVars, lastToast, formVars>>
    /\ UNCHANGED <<dateRange, supplied, metrics, activities>>

\* Query t of request r is the next whose response arrives.  Promise.all
\* hides the order in which the five responses of one request arrive, so
\* they are delivered in the order of the array; the responses of different
\* requests arrive in any order.
NextToArrive(r, t) ==
    \E i \in 1..NumFetches :
        /\ Tables[i] = t
        /\ ~reqs[r].resp[t].arrived
        /\ \A j \in 1..(i - 1) : reqs[r].resp[Tables[j]].arrived

\* The response of query t of request r arrives with the rows of its window.
RespondData(r, t) ==
    /\ reqs[r].pc = "await"
    /\ NextToArrive(r, t)
    /\ reqs' = [reqs EXCEPT ![r].resp[t] = DataResponse(SelectRows(t, reqs[r].dateRange))]
    /\ UNCHANGED <<store, now, errorClass, pageVars, lastToast, formVars>>
    /\ UNCHANGED <<dateRange, effectPending, supplied, metrics, activities, loading, error>>

\* The response of query t of request r arrives with an error.
RespondError(r, t) ==
    /\ reqs[r].pc = "await"
    /\ NextToArrive(r, t)
    /\ NumErrors < MaxErrors
    /\ reqs' = [reqs EXCEPT ![r].resp[t] = ErrorResponse(PostgrestError(t))]
    /\ UNCHANGED <<store, now, errorClass, pageVars, lastToast, formVars>>
    /\ UNCHANGED <<dateRange, effectPending, supplied, metrics, activities, loading, error>>

\* Promise.race in place of Promise.all.
JoinedEarly(r) == \E t \in TableNames : reqs[r].resp[t].arrived

\* Promise.all is fulfilled.
Joined(r) == AllArrived(r)

\* Catch, also clearing the report.
CatchAndReset(r) ==
    /\ error' = AsError(FirstError(r))
    /\ lastToast' = "Failed to load report data"
    /\ loading' = FALSE
    /\ metrics' = InitialMetrics
    /\ activities' = InitialActivities
    /\ UNCHANGED effectPending

\* Catch with setLoading(false) left to the try block.
CatchKeepLoading(r) ==
    /\ error' = AsError(FirstError(r))
    /\ lastToast' = "Failed to load report data"
    /\ UNCHANGED <<metrics, activities, loading, effectPending>>

\* Catch, also scheduling the fetch again.
CatchAndRetry(r) ==
    /\ error' = AsError(FirstError(r))
    /\ lastToast' = "Failed to load report data"
    /\ loading' = FALSE
    /\ effectPending' = TRUE
    /\ UNCHANGED <<metrics, activities>>

\* The catch block, then finally.
Catch(r) ==
    /\ error' = AsError(FirstError(r))
    /\ lastToast' = "Failed to load report data"
    /\ loading' = FALSE
    /\ UNCHANGED <<metrics, activities, effectPending>>

\* Publish, also clearing the error.
PublishAndClearError(r) ==
    /\ metrics' = MetricsOf(r)
    /\ activities' = ActivitiesOf(r, now)
    /\ loading' = FALSE
    /\ error' = NoError
    /\ UNCHANGED <<lastToast, effectPending>>

\* Publish, dropping the result of a request that is not the latest.
PublishIfCurrent(r) ==
    /\ IF r = Len(reqs)
       THEN metrics' = MetricsOf(r) /\ activities' = ActivitiesOf(r, now)
       ELSE UNCHANGED <<metrics, activities>>
    /\ loading' = FALSE
    /\ UNCHANGED <<error, lastToast, effectPending>>

\* The try block after the five checks, then finally.
Publish(r) ==
    /\ metrics' = MetricsOf(r)
    /\ activities' = ActivitiesOf(r, now)
    /\ loading' = FALSE
    /\ UNCHANGED <<error, lastToast, effectPending>>

\* fetchReportData r after its await, to its end.
Resume(r) ==
    /\ reqs[r].pc = "await"
    /\ Joined(r)
    /\ IF Failed(r) THEN Catch(r) ELSE Publish(r)
    /\ reqs' = [reqs EXCEPT ![r].pc = "done"]
    /\ UNCHANGED <<store, now, errorClass, pageVars, formVars, dateRange, supplied>>

\* Half a day passes.
Tick ==
    /\ now < TimeOf(MaxTick)
    /\ now' = now + HalfDay
    /\ UNCHANGED <<store, errorClass, pageVars, lastToast, hookVars, formVars>>

---------------------------------------------------------------------------
(* The hook over a fixed ward. *)

Patient(id, mrn, status, diagnosis, at) ==
    [id |-> id, mrn |-> mrn, status |-> status, diagnosis |-> diagnosis,
     admission_date |-> at]
Discharge(patient_id, condition, at) ==
    [patient_id |-> patient_id, discharge_condition |-> condition,
     discharge_date |-> at]
Event(patient_id, at) == [patient_id |-> patient_id, created_at |-> at]
Medication(patient_id, at, status) ==
    [patient_id |-> patient_id, created_at |-> at, status |-> status]

WardStore ==
    [ patients    |-> << Patient(1, "MRN-1", "Discharged", "Sepsis", TimeOf(0)),
                         Patient(2, "MRN-2", "Critical", "Pneumonia", TimeOf(1)),
                         Patient(3, "MRN-1", "Stable", "Sepsis", TimeOf(2)) >>,
      medications |-> << Medication(1, TimeOf(0), "Completed"),
                         Medication(3, TimeOf(2), "Active") >>,
      lab_results |-> << Event(2, TimeOf(1)) >>,
      discharges  |-> << Discharge(1, "Deceased", TimeOf(1)) >>,
      vitals      |-> << Event(1, TimeOf(0)), Event(2, TimeOf(1)), Event(3, TimeOf(2)) >>,
      notifications |-> <<>> ]

Window(a, b) == [startDate |-> TimeOf(a), endDate |-> TimeOf(b)]
\* The windows the caller chooses from.
Windows == {Window(0, 1), Window(1, 2)}

HookInit ==
    /\ now = TimeOf(0)
    /\ effectPending = TRUE
    /\ supplied = 1
    /\ reqs = <<>>
    /\ metrics = InitialMetrics
    /\ activities = InitialActivities
    /\ loading = TRUE
    /\ error = NoError
    /\ lastToast = ""

\* No discharge form on screen.
NoForm ==
    [version |-> "none", patient_id |-> 0, discharge_date |-> 0,
     discharge_diagnosis |-> "", discharge_condition |-> "",
     discharge_summary |-> "", loading |-> FALSE,
     pc |-> "idle"]

FormInit ==
    /\ form = NoForm
    /\ loggedIn = TRUE
    /\ route = ""

\* No previous window, no report assembled.
NoWindow == [startDate |-> -1, endDate |-> -1]
NoReport == [assembled |-> FALSE]

\* The browser sessions that show an AdmitPatientForm.
Sessions == {"A", "B"}

\* The AdmitPatientForm as mounted: formData of useState, and no
\* handleSubmit running.
NoAdmission ==
    [mrn |-> "", bed_number |-> "", status |-> "Stable",
     loading |-> FALSE, pc |-> "idle", newPatient |-> 0]

PageInit ==
    /\ previousRange = NoWindow
    /\ report = NoReport
    /\ pdf = <<>>
    /\ admits = [s \in Sessions |-> NoAdmission]

Init ==
    /\ store = WardStore
    /\ errorClass \in {"object", "Error"}
    /\ dateRange \in Windows
    /\ HookInit
    /\ FormInit
    /\ PageInit

Next ==
    \/ \E w \in Windows : ChangeDateRange(w)
    \/ StartFetch
    \/ \E r \in DOMAIN reqs, t \in TableNames : RespondData(r, t)
    \/ \E r \in DOMAIN reqs, t \in TableNames : RespondError(r, t)
    \/ \E r \in DOMAIN reqs : Resume(r)

Spec == Init /\ [][Next]_vars

---------------------------------------------------------------------------
(* The hook's computations over the collections one request can fetch. *)

MRNs == {"MRN-1", "MRN-2"}
Statuses == {"Stable", "Critical", "Discharged"}
\* The discharge conditions the discharge forms offer.
Conditions == {"Improved", "Deceased", "died"}

\* The patients tables of up to MaxPatients rows, admitted at instant 0;
\* the primary key of a row is its position.
PatientTables ==
    UNION {{[i \in 1..n |-> Patient(i, f[i][1], f[i][2], "Sepsis", TimeOf(0))] :
               f \in [1..n -> MRNs \X Statuses]} : n \in 0..MaxPatients}

\* The discharges tables of up to MaxDischarges rows.
DischargeTables ==
    UNION {{[i \in 1..n |-> Discharge(i, f[i], TimeOf(1))] :
               f \in [1..n -> Conditions]} : n \in 0..MaxDischarges}

\* The tables of n events, and of n medications.
Events(n) == [i \in 1..n |-> Event(i, TimeOf(0))]
Medications(n) == [i \in 1..n |-> Medication(i, TimeOf(0), "Active")]

CalcStores ==
    {[patients |-> p, medications |-> Medications(m), lab_results |-> Events(1),
      discharges |-> d, vitals |-> Events(1), notifications |-> <<>>] :
        p \in PatientTables, d \in DischargeTables, m \in 0..MaxOther}

\* The ward of two scenarios of the specification: ten admissions, three of
\* them critical, one MRN admitted twice; two discharges, one deceased.
ScenarioStore ==
    [ patients |->
        << Patient(1, "MRN-1", "Critical", "Sepsis", TimeOf(0)),
           Patient(2, "MRN-2", "Critical", "Sepsis", TimeOf(0)),
           Patient(3, "MRN-3", "Critical", "Sepsis", TimeOf(0)),
           Patient(4, "MRN-4", "Stable", "Sepsis", TimeOf(0)),
           Patient(5, "MRN-5", "Stable", "Sepsis", TimeOf(0)),
           Patient(6, "MRN-6", "Stable", "Sepsis", TimeOf(0)),
           Patient(7, "MRN-7", "Stable", "Sepsis", TimeOf(0)),
           Patient(8, "MRN-8", "Stable", "Sepsis", TimeOf(0)),
           Patient(9, "MRN-9", "Stable", "Sepsis", TimeOf(0)),
           Patient(10, "MRN-1", "Discharged", "Sepsis", TimeOf(1)) >>,
      medications |-> Medications(1),
      lab_results |-> Events(1),
      discharges  |-> << Discharge(10, "Improved", TimeOf(1)),
                         Discharge(11, "Deceased", TimeOf(1)) >>,
      vitals      |-> Events(1),
      notifications |-> <<>> ]

\* Wards for the stays: admissions at instants 0 and 1, and discharges,
\* at instants 0 to 2, of patient 1 or of a patient the table does not hold.
StayPatients ==
    UNION {{[i \in 1..n |-> Patient(i, "MRN-1", "Stable", "Sepsis", f[i])] :
               f \in [1..n -> {TimeOf(0), TimeOf(1)}]} : n \in 0..MaxPatients}

StayDischarges ==
    UNION {{[i \in 1..n |-> Discharge(f[i][1], "Improved", f[i][2])] :
               f \in [1..n -> {1, MaxPatients + 2} \X {TimeOf(0), TimeOf(1), TimeOf(2)}]} :
           n \in 0..MaxDischarges}

StayStores ==
    {[patients |-> p, medications |-> <<>>, lab_results |-> <<>>,
      discharges |-> d, vitals |-> <<>>, notifications |-> <<>>] :
        p \in StayPatients, d \in StayDischarges}

\* Wards for the counts: one critical patient, and medications, lab results
\* and vitals of every size up to MaxOther + 1.
CountStores ==
    {[patients |-> <<Patient(1, "MRN-1", "Critical", "Sepsis", TimeOf(0))>>,
      medications |-> Medications(m), lab_results |-> Events(l),
      discharges |-> <<>>, vitals |-> Events(v), notifications |-> <<>>] :
        m \in 0..(MaxOther + 1), l \in 0..(MaxOther + 1), v \in 0..(MaxOther + 1)}

\* A ward of n patients in their beds and one discharged patient.
Crowd(n) ==
    [ patients    |-> [i \in 1..(n + 1) |->
                          Patient(i, "MRN-1", IF i <= n THEN "Stable" ELSE "Discharged",
                                  "Sepsis", TimeOf(0))],
      medications |-> <<>>, lab_results |-> <<>>, discharges |-> <<>>,
      vitals |-> <<>>, notifications |-> <<>> ]

\* The ward with every bed taken, and the ward with one patient more.
CrowdStores == {Crowd(totalBeds), Crowd(totalBeds + 1)}

\* The ward whose admissions have the diagnoses ds, in this order.
DiagnosisWard(ds) ==
    [ patients    |-> [i \in DOMAIN ds |->
                          Patient(i, "MRN-1", "Stable", ds[i], TimeOf(0))],
      medications |-> <<>>, lab_results |-> <<>>, discharges |-> <<>>,
      vitals |-> <<>>, notifications |-> <<>> ]

\* What the admission form's text input 'diagnosis' may hold.
Diagnoses == {"Sepsis", "sepsis", "7", "12"}

\* The wards of up to MaxPatients + 1 admissions with these diagnoses, a
\* ward of seven diagnoses, and a ward of six, one of them a number.
DiagnosisStores ==
    UNION {{DiagnosisWard(ds) : ds \in [1..n -> Diagnoses]} :
              n \in 0..(MaxPatients + 1)}
      \cup {DiagnosisWard(<<"Asthma", "Burns", "Burns", "Colitis", "Dengue",
                            "Eczema", "Flu", "Gout", "Gout", "Gout">>),
            DiagnosisWard(<<"Sepsis", "Asthma", "Stroke", "Trauma", "Burns", "7">>)}

\* The wards the computations are checked over.
CalcInputs ==
    CalcStores \cup {ScenarioStore} \cup StayStores \cup CountStores
        \cup CrowdStores \cup DiagnosisStores

CalcInit ==
    /\ store \in CalcInputs
    /\ errorClass = "object"
    /\ dateRange \in Windows
    /\ HookInit
    /\ FormInit
    /\ PageInit

CalcNext ==
    \/ StartFetch
    \/ \E r \in DOMAIN reqs, t \in TableNames : RespondData(r, t)
    \/ \E r \in DOMAIN reqs : Resume(r)

\* One request over every ward of CalcStores.
SpecCalc == CalcInit /\ [][CalcNext]_vars

---------------------------------------------------------------------------
(* The hook rendered again with the same window while the clock runs. *)

\* The caller renders with a new dateRange object of the same two dates:
\* the dependency [dateRange] has changed and the effect runs again.
RenderSameDateRange ==
    /\ ~effectPending
    /\ supplied < MaxReq
    /\ effectPending' = TRUE
    /\ supplied' = supplied + 1
    /\ UNCHANGED <<store, now, errorClass, pageVars, lastToast, formVars>>
    /\ UNCHANGED <<dateRange, reqs, metrics, activities, loading, error>>

ClockInit ==
    /\ store = WardStore
    /\ errorClass = "object"
    /\ dateRange \in Windows
    /\ HookInit
    /\ FormInit
    /\ PageInit

ClockNext ==
    \/ RenderSameDateRange
    \/ Tick
    \/ StartFetch
    \/ \E r \in DOMAIN reqs, t \in TableNames : RespondData(r, t)
    \/ \E r \in DOMAIN reqs : Resume(r)

\* Requests for one window over unchanging tables, at different times.
SpecClock == ClockInit /\ [][ClockNext]_vars

---------------------------------------------------------------------------
(* DischargeForm.  The repository holds two versions of the component,     *)
(* src/unnamed/part_001 and src/unnamed/part_003; form.version says which  *)
(* one is on screen.  Each await of handleSubmit ends a step; form.pc is   *)
(* the query handleSubmit waits for.                                       *)

\* The options of the select 'discharge_condition'.
ConditionOptions(version) ==
    IF version = "part_001"
    THEN {"Improved", "Stable", "Deteriorated", "Deceased"}
    ELSE {"Improved", "died"}

\* The calendar dates of the clock's range, and the instant a date column
\* holds for 'YYYY-MM-DD': midnight.
Days == 0..DateOf(TimeOf(MaxTick))
DateToInstant(day) == day * MsPerDay

\* What the user types as discharge summary; " " is blank.
Summaries == {" ", "Course"}
\* The empty value of a date input.
NoDate == -1
Trim(text) == IF text = " " THEN "" ELSE text

\* PatientDetails shows the form for a patient that is not discharged.
OpenDischargeForm(i, version) ==
    /\ form.version = "none"
    /\ store.patients[i].status # "Discharged"
    /\ form' = [version |-> version,
                patient_id |-> store.patients[i].id,
                discharge_date |-> DateOf(now),
                discharge_diagnosis |-> store.patients[i].diagnosis,
                discharge_condition |-> "Improved",
                discharge_summary |-> "",
                loading |-> FALSE,
                pc |-> "idle"]
    /\ UNCHANGED <<store, now, errorClass, pageVars, lastToast, hookVars, loggedIn, route>>

\* handleChange of one of the fields.
handleChange(name, value) ==
    /\ form.version # "none"
    /\ form.pc = "idle"
    /\ form' = [form EXCEPT ![name] = value]
    /\ UNCHANGED <<store, now, errorClass, pageVars, lastToast, hookVars, loggedIn, route>>

\* The Cancel button.
CancelDischarge ==
    /\ form.version # "none"
    /\ form.pc = "idle"
    /\ form' = NoForm
    /\ route' = "/dashboard"
    /\ UNCHANGED <<store, now, errorClass, pageVars, lastToast, hookVars, loggedIn>>

\* validateForm of part_003: the toast of the first check that fails, or "".
validateForm ==
    IF form.discharge_date = NoDate THEN "Discharge date is required"
    ELSE IF Trim(form.discharge_diagnosis) = "" THEN "Discharge diagnosis is required"
    ELSE IF Trim(form.discharge_summary) = "" THEN "Discharge summary is required"
    ELSE ""

\* handleSubmit up to its first await.  The browser submits the form only
\* with its required fields filled; the button is disabled while loading.
SubmitDischarge ==
    /\ form.version # "none"
    /\ form.pc = "idle"
    /\ ~form.loading
    /\ form.discharge_summary # ""
    /\ Len(store.discharges) < MaxDischarges
    /\ IF form.version = "part_003" /\ validateForm # ""
       THEN /\ lastToast' = validateForm
            /\ UNCHANGED <<form, route>>
       ELSE IF ~loggedIn
       THEN /\ lastToast' = "Please log in again"
            /\ route' = "/login"
            /\ form' = NoForm
       ELSE /\ form' = [form EXCEPT !.loading = TRUE,
                          !.pc = IF form.version = "part_003"
                                 THEN "insertDischarge" ELSE "updatePatient"]
            /\ UNCHANGED <<lastToast, route>>
    /\ UNCHANGED <<store, now, errorClass, pageVars, hookVars, loggedIn>>

\* The catch block, then finally.
DischargeFailed ==
    /\ lastToast' = IF form.version = "part_003"
                    THEN "Failed to discharge patient. Please try again."
                    ELSE "Failed to discharge patient"
    /\ form' = [form EXCEPT !.loading = FALSE, !.pc = "idle"]
    /\ UNCHANGED <<store, route>>

\* The row handleSubmit inserts into discharges.
DischargeRow ==
    Discharge(form.patient_id, form.discharge_condition,
              DateToInstant(form.discharge_date))

\* The insert into discharges answers.
InsertDischarge(ok) ==
    /\ form.pc = "insertDischarge"
    /\ IF ok
       THEN /\ store' = [store EXCEPT !.discharges = Append(@, DischargeRow)]
            /\ form' = [form EXCEPT !.pc = IF form.version = "part_003"
                                          THEN "updatePatient" ELSE "notify"]
            /\ UNCHANGED <<lastToast, route>>
       ELSE DischargeFailed
    /\ UNCHANGED <<now, errorClass, pageVars, hookVars, loggedIn>>

\* The update of the patient's status answers.
UpdatePatient(ok) ==
    /\ form.pc = "updatePatient"
    /\ IF ok
       THEN /\ store' = [store EXCEPT !.patients =
                          [i \in DOMAIN @ |->
                              IF @[i].id = form.patient_id
                              THEN [@[i] EXCEPT !.status = "Discharged"]
                              ELSE @[i]]]
            /\ form' = [form EXCEPT !.pc = IF form.version = "part_003"
                                          THEN "updateMedications"
                                          ELSE "insertDischarge"]
            /\ UNCHANGED <<lastToast, route>>
       ELSE DischargeFailed
    /\ UNCHANGED <<now, errorClass, pageVars, hookVars, loggedIn>>

\* The update of the patient's active medications answers (part_003); its
\* error is logged and handleSubmit goes on.
UpdateMedications(ok) ==
    /\ form.pc = "updateMedications"
    /\ IF ok
       THEN store' = [store EXCEPT !.medications =
                        [i \in DOMAIN @ |->
                            IF @[i].patient_id = form.patient_id /\ @[i].status = "Active"
                            THEN [@[i] EXCEPT !.status = "Completed"]
                            ELSE @[i]]]
       ELSE UNCHANGED store
    /\ form' = [form EXCEPT !.pc = "notify"]
    /\ UNCHANGED <<now, errorClass, pageVars, lastToast, hookVars, loggedIn, route>>

\* The notification handleSubmit inserts.
DischargeNotification ==
    [type |-> "discharge",
     severity |-> IF form.version = "part_003" /\ form.discharge_condition = "died"
                  THEN "critical" ELSE "info",
     patient_id |-> form.patient_id]

\* The insert into notifications answers; its error is not looked at.
\* handleSubmit runs to its end: onDischarge closes the form.
NotifyDischarge(ok) ==
    /\ form.pc = "notify"
    /\ store' = IF ok
                THEN [store EXCEPT !.notifications = Append(@, DischargeNotification)]
                ELSE store
    /\ lastToast' = "Patient discharged successfully"
    /\ route' = "/dashboard"
    /\ form' = NoForm
    /\ UNCHANGED <<now, errorClass, pageVars, hookVars, loggedIn>>

\* A ward of one patient, not discharged yet.
DischargeWard ==
    [ patients    |-> << Patient(1, "MRN-1", "Critical", "Sepsis", TimeOf(0)) >>,
      medications |-> << Medication(1, TimeOf(0), "Active") >>,
      lab_results |-> <<>>,
      discharges  |-> <<>>,
      vitals      |-> <<>>,
      notifications |-> <<>> ]

DischargeInit ==
    /\ store = DischargeWard
    /\ errorClass = "object"
    /\ dateRange = Window(0, 1)
    /\ HookInit
    /\ form = NoForm
    /\ loggedIn \in BOOLEAN
    /\ route = ""
    /\ PageInit

DischargeNext ==
    \/ \E i \in DOMAIN store.patients, v \in {"part_001", "part_003"} :
          OpenDischargeForm(i, v)
    \/ \E c \in ConditionOptions(form.version) : handleChange("discharge_condition", c)
    \/ \E d \in Days : handleChange("discharge_date", d)
    \/ \E t \in Summaries : handleChange("discharge_summary", t)
    \/ CancelDischarge
    \/ SubmitDischarge
    \/ \E ok \in BOOLEAN : InsertDischarge(ok)
    \/ \E ok \in BOOLEAN : UpdatePatient(ok)
    \/ \E ok \in BOOLEAN : UpdateMedications(ok)
    \/ \E ok \in BOOLEAN : NotifyDischarge(ok)
    \/ Tick
    \/ StartFetch
    \/ \E r \in DOMAIN reqs, t \in TableNames : RespondData(r, t)
    \/ \E r \in DOMAIN reqs : Resume(r)

\* The discharge forms, and one request of the hook, over DischargeWard.
SpecDischarge == DischargeInit /\ [][DischargeNext]_vars

---------------------------------------------------------------------------
\* The step of Resume(r), by what it does to reqs: in a behaviour of Spec
\* the steps that take a request from its await to its end are those of
\* Resume, and it is enabled exactly when Resume is.
Resumes(r) ==
    /\ r \in DOMAIN reqs
    /\ reqs[r].pc = "await"
    /\ Joined(r)
    /\ reqs' = [reqs EXCEPT ![r].pc = "done"]

\* The continuation of a fulfilled Promise.all is a microtask: it runs.
Fairness == \A r \in 1..MaxReq : WF_reqs(Resumes(r))

LiveSpec == Spec /\ Fairness

---------------------------------------------------------------------------
(* Properties. *)

\* The step in which request r runs from its await to its end.
ResumeStep(r) == reqs[r].pc = "await" /\ reqs'[r].pc = "done"
Done(r) == r \in DOMAIN reqs /\ reqs[r].pc = "done"
Succeeded(r) == Done(r) /\ ~Failed(r)
Wrote == metrics' # metrics \/ activities' # activities

\* C1: a request with an error in at least one of its five responses writes
\* neither metrics nor activities, at its end or before: they keep the
\* values they had, and error becomes non-null.
C1_FailedRequestKeepsReport ==
    [][/\ \A r \in DOMAIN reqs :
            ResumeStep(r) /\ Failed(r)
                => metrics' = metrics /\ activities' = activities /\ error' # NoError
       /\ Wrote => \E r \in DOMAIN reqs : ResumeStep(r) /\ ~Failed(r)]_vars

C1_Witness ==
    \E r \in DOMAIN reqs :
        /\ Done(r) /\ Failed(r)
        /\ error # NoError
        /\ metrics # InitialMetrics
        /\ activities # InitialActivities

\* C2: metrics and activities are written only in the step of a request all
\* of whose five responses have arrived, and both from that request's five
\* collections; in every state they are the initial pair or the pair of one
\* request.
C2_ResultOfOneJoinedRequest ==
    /\ [][Wrote => \E r \in DOMAIN reqs :
                      /\ ResumeStep(r)
                      /\ AllArrived(r)
                      /\ metrics' = MetricsOf(r)
                      /\ activities' = ActivitiesOf(r, now)]_vars
    /\ [](\/ metrics = InitialMetrics /\ activities = InitialActivities
          \/ \E r \in DOMAIN reqs, t \in Times :
                /\ Succeeded(r)
                /\ metrics = MetricsOf(r)
                /\ activities = ActivitiesOf(r, t))

C2_Witness ==
    /\ Len(reqs) = 2
    /\ Succeeded(1) /\ Succeeded(2)
    /\ MetricsOf(1) # MetricsOf(2)
    /\ ActivitiesOf(1, now) # ActivitiesOf(2, now)
    /\ metrics = MetricsOf(2)
    /\ activities = ActivitiesOf(2, now)

\* C3: every request that ends without an error writes its own result,
\* whether or not a later request has been started since: a superseded
\* request's response is not discarded.
C3_SupersededRequestWrites ==
    [][\A r \in DOMAIN reqs :
          ResumeStep(r) /\ ~Failed(r)
              => metrics' = MetricsOf(r) /\ activities' = ActivitiesOf(r, now)]_vars

\* Both requests have finished, the current dateRange is the second's, and
\* the report is the first's.
C3_Witness ==
    /\ Len(reqs) = 2
    /\ Succeeded(1) /\ Succeeded(2)
    /\ ~effectPending
    /\ reqs[1].dateRange # reqs[2].dateRange
    /\ dateRange = reqs[2].dateRange
    /\ MetricsOf(1) # MetricsOf(2)
    /\ metrics = MetricsOf(1)
    /\ activities = ActivitiesOf(1, now)

\* C4: a request sets loading at its start, clears it at its end, failed or
\* not, and reaches its end once its five responses have arrived.
C4_LoadingSetThenCleared ==
    /\ [][Len(reqs') > Len(reqs) => loading']_vars
    /\ [][\A r \in DOMAIN reqs : ResumeStep(r) => ~loading']_vars
    /\ \A r \in 1..MaxReq :
          (r \in DOMAIN reqs /\ AllArrived(r)) ~> Done(r)

C4_Witness ==
    /\ ~loading
    /\ \E r \in DOMAIN reqs : Done(r) /\ Failed(r)
    /\ \E r \in DOMAIN reqs : Succeeded(r)

\* C5: the requests started are as many as the dateRange values supplied,
\* less the one whose effect has yet to run.
C5_OneRequestPerDateRange ==
    Len(reqs) = supplied - (IF effectPending THEN 1 ELSE 0)

C5_Witness ==
    /\ supplied = 2
    /\ Len(reqs) = 2
    /\ Done(1) /\ Failed(1)
    /\ Done(2)

\* C6: the two rates are between 0 and 1, the average stay is finite, and
\* every denominator of a finished request's divisions is at least 1.
C6_RatesWithinUnitInterval ==
    /\ metrics.mortalityRate.den >= 1
    /\ 0 <= metrics.mortalityRate.num
    /\ metrics.mortalityRate.num <= metrics.mortalityRate.den
    /\ metrics.readmissionRate.den >= 1
    /\ 0 <= metrics.readmissionRate.num
    /\ metrics.readmissionRate.num <= metrics.readmissionRate.den
    /\ metrics.averageStayDuration.den >= 1
    /\ \A r \in DOMAIN reqs :
          Succeeded(r) =>
              \A d \in Denominators(Fetched(r, "patients"), Fetched(r, "discharges")) :
                  d >= 1

\* A request over no admissions and no discharges has finished.
C6_Witness ==
    /\ Succeeded(1)
    /\ Fetched(1, "patients") = <<>>
    /\ Fetched(1, "discharges") = <<>>
    /\ metrics.mortalityRate = Zero
    /\ metrics.readmissionRate = Zero

\* C7: criticalCases <= totalPatients.
C7_CriticalAtMostTotal == metrics.criticalCases <= metrics.totalPatients

C7_Witness ==
    /\ Succeeded(1)
    /\ metrics.totalPatients = 2
    /\ metrics.criticalCases = 2

\* The indices of the rows of a collection whose column has a value.
RowsWith(rows, col, value) == {i \in DOMAIN rows : rows[i][col] = value}

\* C8: mortalityRate is the number of fetched discharges whose condition is
\* 'Deceased' over max(number of fetched discharges, 1): 0 without
\* discharges, 1/2 for one of two.
C8_MortalityRate ==
    Succeeded(1) =>
        LET d == Fetched(1, "discharges")
            n == Cardinality(RowsWith(d, "discharge_condition", "Deceased"))
        IN  /\ EqualsRatio(metrics.mortalityRate, n, Max(Len(d), 1))
            /\ Len(d) = 0 => metrics.mortalityRate = Zero
            /\ Len(d) = 2 /\ n = 1 => metrics.mortalityRate = [num |-> 1, den |-> 2]

\* The scenario of ten admissions and two discharges.
C8_Witness ==
    /\ Succeeded(1)
    /\ store = ScenarioStore
    /\ metrics.criticalCases = 3
    /\ metrics.mortalityRate = [num |-> 1, den |-> 2]

\* The value a version of DischargeForm writes for a patient who died.
DeceasedOption(version) == IF version = "part_001" THEN "Deceased" ELSE "died"

\* C9: the condition the mortality computation counts is the one the
\* discharge form writes for a patient who died: mortalityRate counts every
\* fetched discharge that either version of the form recorded as a death.
C9_SentinelMatchesForm ==
    Succeeded(1) =>
        LET d == Fetched(1, "discharges")
            deaths == {i \in DOMAIN d :
                          \E v \in {"part_001", "part_003"} :
                              d[i].discharge_condition = DeceasedOption(v)}
        IN  EqualsRatio(metrics.mortalityRate, Cardinality(deaths), Max(Len(d), 1))

\* The one discharge of the window is a death recorded by part_003's form,
\* and the report's mortality rate is 0.
C9_Witness ==
    /\ Succeeded(1)
    /\ Len(Fetched(1, "discharges")) = 1
    /\ Fetched(1, "discharges")[1].discharge_condition = DeceasedOption("part_003")
    /\ metrics.mortalityRate = Zero

\* C10: readmissionRate is the number of distinct MRNs that occur in more
\* than one fetched admission over max(number of fetched admissions, 1).
C10_ReadmissionRate ==
    Succeeded(1) =>
        LET p == Fetched(1, "patients")
            repeated == {m \in {p[i].mrn : i \in DOMAIN p} :
                            Cardinality(RowsWith(p, "mrn", m)) > 1}
        IN  EqualsRatio(metrics.readmissionRate, Cardinality(repeated), Max(Len(p), 1))

\* Ten admissions, one MRN admitted twice.
C10_Witness ==
    /\ Succeeded(1)
    /\ Len(Fetched(1, "patients")) = 10
    /\ Cardinality(RowsWith(Fetched(1, "patients"), "mrn", "MRN-1")) = 2
    /\ metrics.readmissionRate = [num |-> 1, den |-> 10]

\* C11: averageStayDuration is the sum, over all fetched discharges, of the
\* stay (discharge time less the admission time of the first fetched
\* admission with the discharge's patient_id; 0 without such an admission)
\* over the number of fetched discharges, and 0 without discharges.
C11_AverageStayOverAllDischarges ==
    Succeeded(1) =>
        LET p == Fetched(1, "patients")
            d == Fetched(1, "discharges")
            Matches(i) == {j \in DOMAIN p : p[j].id = d[i].patient_id}
            First(S) == CHOOSE j \in S : \A k \in S : j <= k
            stay == [i \in DOMAIN d |->
                        IF Matches(i) = {} THEN 0
                        ELSE d[i].discharge_date - p[First(Matches(i))].admission_date]
        IN  IF Len(d) = 0
            THEN metrics.averageStayDuration = Zero
            ELSE EqualsRatio(metrics.averageStayDuration, SumSeq(stay),
                             MsPerDay * Len(d))

\* Two discharges, one of half a day and one without its admission: the
\* mean is a quarter of a day.
C11_Witness ==
    /\ Succeeded(1)
    /\ Len(Fetched(1, "discharges")) = 2
    /\ \E i \in 1..2 : \A j \in DOMAIN Fetched(1, "patients") :
          Fetched(1, "patients")[j].id # Fetched(1, "discharges")[i].patient_id
    /\ metrics.averageStayDuration = [num |-> 1, den |-> 4]

\* C12: after a successful request totalPatients is the number of fetched
\* admissions, criticalCases the number of them whose status is 'Critical'
\* (0 when none, and no error), medicationsGiven the number of fetched
\* medications and labTests the number of fetched lab results.
C12_Counts ==
    Succeeded(1) =>
        /\ metrics.totalPatients = Len(Fetched(1, "patients"))
        /\ metrics.criticalCases =
              Cardinality(RowsWith(Fetched(1, "patients"), "status", "Critical"))
        /\ metrics.medicationsGiven = Len(Fetched(1, "medications"))
        /\ metrics.labTests = Len(Fetched(1, "lab_results"))
        /\ error = NoError

\* Two admissions, none critical, one discharged; no medication, one lab
\* result.
C12_Witness ==
    /\ Succeeded(1)
    /\ RowsWith(Fetched(1, "patients"), "status", "Discharged") # {}
    /\ metrics.totalPatients = 2
    /\ metrics.criticalCases = 0
    /\ metrics.medicationsGiven = 0
    /\ metrics.labTests = 1
    /\ error = NoError

\* C13: bedOccupancyRate is the number of fetched admissions whose status
\* is not 'Discharged' over 50, uncapped: it exceeds 1 exactly when more
\* than 50 fetched admissions are not discharged.
C13_BedOccupancyUncapped ==
    Succeeded(1) =>
        LET p == Fetched(1, "patients")
            occupied == Cardinality(DOMAIN p \ RowsWith(p, "status", "Discharged"))
        IN  /\ EqualsRatio(metrics.bedOccupancyRate, occupied, 50)
            /\ (metrics.bedOccupancyRate.num > metrics.bedOccupancyRate.den)
                  <=> (occupied > 50)

\* 52 admissions, one of them discharged: the rate is 51/50.
C13_Witness ==
    /\ Succeeded(1)
    /\ Len(Fetched(1, "patients")) = 52
    /\ Cardinality(RowsWith(Fetched(1, "patients"), "status", "Discharged")) = 1
    /\ metrics.bedOccupancyRate = [num |-> 51, den |-> 50]

\* The index of the first row of a collection whose column has a value.
FirstRowWith(rows, col, value) ==
    CHOOSE i \in RowsWith(rows, col, value) :
        \A j \in RowsWith(rows, col, value) : i <= j

\* C14: patientStatusDistribution has one entry per distinct status of the
\* fetched admissions, with the number of admissions of that status, in
\* the order in which the statuses first occur among the admissions; the
\* values sum to totalPatients.
C14_StatusDistribution ==
    Succeeded(1) =>
        LET p == Fetched(1, "patients")
            dist == activities.patientStatusDistribution
        IN  /\ Len(dist) = Cardinality({p[i].status : i \in DOMAIN p})
            /\ \A i \in DOMAIN p : \E k \in DOMAIN dist : dist[k].name = p[i].status
            /\ \A k \in DOMAIN dist :
                  dist[k].value = Cardinality(RowsWith(p, "status", dist[k].name))
            /\ \A k, l \in DOMAIN dist :
                  k < l => FirstRowWith(p, "status", dist[k].name)
                              < FirstRowWith(p, "status", dist[l].name)
            /\ SumSeq([k \in DOMAIN dist |-> dist[k].value]) = metrics.totalPatients

\* Three critical, then six stable, then one discharged admission.
C14_Witness ==
    /\ Succeeded(1)
    /\ activities.patientStatusDistribution =
          << [name |-> "Critical", value |-> 3],
             [name |-> "Stable", value |-> 6],
             [name |-> "Discharged", value |-> 1] >>
    /\ metrics.totalPatients = 10

\* The admissions the report on screen was computed from.
ReportedPatients == IF Succeeded(1) THEN Fetched(1, "patients") ELSE <<>>

\* C15: in every state commonDiagnoses has min(5, number of distinct
\* diagnoses of the fetched admissions) entries, one per diagnosis, with
\* non-increasing counts, each the number of admissions with exactly that
\* diagnosis, and no diagnosis left out has more admissions than a listed
\* one.
C15_CommonDiagnoses ==
    LET p == ReportedPatients
        cd == activities.commonDiagnoses
        all == {p[i].diagnosis : i \in DOMAIN p}
        listed == {cd[k].name : k \in DOMAIN cd}
    IN  /\ Len(cd) <= 5
        /\ Len(cd) = Min(5, Cardinality(all))
        /\ Cardinality(listed) = Len(cd)
        /\ listed \subseteq all
        /\ \A k \in DOMAIN cd :
              cd[k].count = Cardinality(RowsWith(p, "diagnosis", cd[k].name))
        /\ \A k, l \in DOMAIN cd : k < l => cd[k].count >= cd[l].count
        /\ \A d \in all \ listed : \A k \in DOMAIN cd :
              Cardinality(RowsWith(p, "diagnosis", d)) <= cd[k].count

\* Seven diagnoses among ten admissions: the two most frequent come first,
\* and two diagnoses of one admission are left out.
C15_Witness ==
    /\ Succeeded(1)
    /\ Cardinality({ReportedPatients[i].diagnosis : i \in DOMAIN ReportedPatients}) = 7
    /\ Len(activities.commonDiagnoses) = 5
    /\ activities.commonDiagnoses[1] = [name |-> "Gout", count |-> 3]
    /\ activities.commonDiagnoses[2] = [name |-> "Burns", count |-> 2]
    /\ activities.commonDiagnoses[5].count = 1

\* C16: diagnoses with equal counts are listed in the order in which they
\* first occur among the fetched admissions, whatever the diagnosis string
\* is, and of equally frequent diagnoses the ones that occur first are the
\* ones kept in the five.
C16_TiesInFirstSeenOrder ==
    Succeeded(1) =>
        LET p == Fetched(1, "patients")
            cd == activities.commonDiagnoses
            all == {p[i].diagnosis : i \in DOMAIN p}
            listed == {cd[k].name : k \in DOMAIN cd}
        IN  /\ \A k, l \in DOMAIN cd :
                  k < l /\ cd[k].count = cd[l].count
                      => FirstRowWith(p, "diagnosis", cd[k].name)
                            < FirstRowWith(p, "diagnosis", cd[l].name)
            /\ \A d \in all \ listed : \A k \in DOMAIN cd :
                  cd[k].count = Cardinality(RowsWith(p, "diagnosis", d))
                      => FirstRowWith(p, "diagnosis", cd[k].name)
                            < FirstRowWith(p, "diagnosis", d)

\* Six diagnoses of one admission each, the last of them "7": "7" is listed
\* first and "Burns", which occurs before it, is left out.
C16_Witness ==
    /\ Succeeded(1)
    /\ Len(Fetched(1, "patients")) = 6
    /\ Fetched(1, "patients")[5].diagnosis = "Burns"
    /\ Fetched(1, "patients")[6].diagnosis = "7"
    /\ activities.commonDiagnoses[1].name = "7"
    /\ \A k \in DOMAIN activities.commonDiagnoses :
          activities.commonDiagnoses[k].name # "Burns"

\* The number of rows of a collection dated, in a column, on the calendar
\* date of an instant.
RowsOnDateOf(rows, col, t) ==
    Cardinality({i \in DOMAIN rows : rows[i][col] \div 86400000 = t \div 86400000})

\* C17: in every state the dailyActivities the hook returns has four
\* entries, named Admissions, Discharges, Lab Tests, Medications in this
\* order; written by a request, each counts the fetched records of its
\* collection dated on the calendar date of the computation.
C17_DailyActivitiesShape ==
    LET da == activities.dailyActivities
    IN  /\ Len(da) = 4
        /\ <<da[1].name, da[2].name, da[3].name, da[4].name>>
              = <<"Admissions", "Discharges", "Lab Tests", "Medications">>
        /\ \A r \in DOMAIN reqs :
              Succeeded(r) /\ activities = ActivitiesOf(r, now) =>
                  /\ da[1].value = RowsOnDateOf(Fetched(r, "patients"), "admission_date", now)
                  /\ da[2].value = RowsOnDateOf(Fetched(r, "discharges"), "discharge_date", now)
                  /\ da[3].value = RowsOnDateOf(Fetched(r, "lab_results"), "created_at", now)
                  /\ da[4].value = RowsOnDateOf(Fetched(r, "medications"), "created_at", now)

\* The first request has failed: the hook is no longer loading and returns
\* a dailyActivities without entries.
C17_Witness ==
    /\ Done(1) /\ Failed(1)
    /\ ~loading
    /\ error # NoError
    /\ activities.dailyActivities = <<>>

\* C18: after a successful request topProcedures has five entries, Vital
\* Signs, Lab Tests, Medication Administration, Patient Assessment and
\* Discharge Planning in this order, with the sizes of the fetched vitals,
\* lab results, medications, admissions and discharges; three of them are
\* the metrics labTests, medicationsGiven and totalPatients.
C18_TopProcedures ==
    Succeeded(1) =>
        LET tp == activities.topProcedures
        IN  /\ tp = << [name |-> "Vital Signs", count |-> Len(Fetched(1, "vitals"))],
                       [name |-> "Lab Tests", count |-> Len(Fetched(1, "lab_results"))],
                       [name |-> "Medication Administration",
                        count |-> Len(Fetched(1, "medications"))],
                       [name |-> "Patient Assessment", count |-> Len(Fetched(1, "patients"))],
                       [name |-> "Discharge Planning",
                        count |-> Len(Fetched(1, "discharges"))] >>
            /\ tp[2].count = metrics.labTests
            /\ tp[3].count = metrics.medicationsGiven
            /\ tp[4].count = metrics.totalPatients

\* Two vitals, one lab result, no medication, one admission, no discharge.
C18_Witness ==
    /\ Succeeded(1)
    /\ Len(activities.topProcedures) = 5
    /\ activities.topProcedures[1].count = 2
    /\ activities.topProcedures[2].count = 1
    /\ activities.topProcedures[3].count = 0
    /\ activities.topProcedures[4].count = 1
    /\ activities.topProcedures[5].count = 0

\* All five collections of request r are empty.
NothingFetched(r) == \A t \in TableNames : Fetched(r, t) = <<>>

\* C19: a request whose five fetched collections are empty, whatever the
\* window, sets the eight metrics to 0 and the activities to an empty
\* status distribution, four daily activities of 0, five top procedures of
\* 0 and no common diagnosis, and raises no error.
C19_ZeroInput ==
    Succeeded(1) /\ NothingFetched(1) =>
        /\ metrics = [ totalPatients |-> 0, criticalCases |-> 0,
                       medicationsGiven |-> 0, labTests |-> 0,
                       averageStayDuration |-> [num |-> 0, den |-> 1],
                       bedOccupancyRate |-> [num |-> 0, den |-> 1],
                       readmissionRate |-> [num |-> 0, den |-> 1],
                       mortalityRate |-> [num |-> 0, den |-> 1] ]
        /\ activities.patientStatusDistribution = <<>>
        /\ activities.dailyActivities =
              << [name |-> "Admissions", value |-> 0],
                 [name |-> "Discharges", value |-> 0],
                 [name |-> "Lab Tests", value |-> 0],
                 [name |-> "Medications", value |-> 0] >>
        /\ activities.topProcedures =
              << [name |-> "Vital Signs", count |-> 0],
                 [name |-> "Lab Tests", count |-> 0],
                 [name |-> "Medication Administration", count |-> 0],
                 [name |-> "Patient Assessment", count |-> 0],
                 [name |-> "Discharge Planning", count |-> 0] >>
        /\ activities.commonDiagnoses = <<>>
        /\ error = NoError
        /\ lastToast = ""

\* The tables hold admissions, but none inside the window of the request.
C19_Witness ==
    /\ Succeeded(1)
    /\ NothingFetched(1)
    /\ store.patients # <<>>
    /\ reqs[1].dateRange = Window(1, 2)
    /\ Len(activities.dailyActivities) = 4
    /\ Len(activities.topProcedures) = 5
    /\ metrics.readmissionRate = Zero

\* Requests q and r have fetched identical collections.
SameCollections(q, r) == \A t \in TableNames : Fetched(q, t) = Fetched(r, t)

\* The report on screen is the one request q computes at instant t.
ReportOf(q, t) == metrics = MetricsOf(q) /\ activities = ActivitiesOf(q, t)

---------------------------------------------------------------------------
(* The report page.  The Comparison Engine and the Report Assembler are    *)
(* modelled from sections 3, 4.4 and 4.5 of the specification: the sources *)
(* hold their types (src/unnamed/part_000) and not their code.             *)

\* The JS difference p - q.
Minus(p, q) ==
    IF IsFinite(p) /\ IsFinite(q)
    THEN Div(p.num * q.den - q.num * p.den, p.den * q.den)
    ELSE IF IsFinite(q) THEN p
    ELSE IF IsFinite(p) THEN [num |-> -q.num, den |-> 0]
    ELSE IF p.num # 0 /\ p.num = -q.num THEN p
    ELSE [num |-> 0, den |-> 0]

\* The deltas taken the other way round.
compareMetricsReversed(current, previous) ==
    [ previousPeriod |-> previous,
      changes |->
        [ totalPatients |-> previous.totalPatients - current.totalPatients,
          criticalCases |-> previous.criticalCases - current.criticalCases,
          averageStayDuration |->
              Minus(previous.averageStayDuration, current.averageStayDuration),
          bedOccupancyRate |->
              Minus(previous.bedOccupancyRate, current.bedOccupancyRate),
          readmissionRate |->
              Minus(previous.readmissionRate, current.readmissionRate),
          mortalityRate |->
              Minus(previous.mortalityRate, current.mortalityRate) ] ]

\* The Comparison Engine: (currentMetrics, previousMetrics) -> ComparisonData.
compareMetrics(current, previous) ==
    [ previousPeriod |-> previous,
      changes |->
        [ totalPatients |-> current.totalPatients - previous.totalPatients,
          criticalCases |-> current.criticalCases - previous.criticalCases,
          averageStayDuration |->
              Minus(current.averageStayDuration, previous.averageStayDuration),
          bedOccupancyRate |->
              Minus(current.bedOccupancyRate, previous.bedOccupancyRate),
          readmissionRate |->
              Minus(current.readmissionRate, previous.readmissionRate),
          mortalityRate |->
              Minus(current.mortalityRate, previous.mortalityRate) ] ]

\* The metrics of window w, computed by the caller for the comparison.
MetricsOver(w) ==
    ComputeMetrics(SelectRows("patients", w), SelectRows("medications", w),
                   SelectRows("lab_results", w), SelectRows("discharges", w))

\* The assembler with a comparison in every report.
assembleReportAlways(m, a, previous) ==
    [ assembled |-> TRUE, metrics |-> m, activities |-> a,
      comparison |-> compareMetrics(m, IF previous = NoWindow THEN InitialMetrics
                                       ELSE MetricsOver(previous)) ]

\* The Report Assembler: ReportData of the metrics and activities, with the
\* comparison when there is a previous window.
assembleReport(m, a, previous) ==
    IF previous = NoWindow
    THEN [ assembled |-> TRUE, metrics |-> m, activities |-> a ]
    ELSE [ assembled |-> TRUE, metrics |-> m, activities |-> a,
           comparison |-> compareMetrics(m, MetricsOver(previous)) ]

\* The page assembles the report of what the hook holds; previous is the
\* previous window the caller supplies, NoWindow for none.
AssembleReport(previous) ==
    /\ ~loading
    /\ previousRange' = previous
    /\ report' = assembleReport(metrics, activities, previous)
    /\ UNCHANGED <<store, now, errorClass, lastToast, hookVars, formVars>>
    /\ UNCHANGED <<pdf, admits>>

---------------------------------------------------------------------------
(* generatePDF (src/src/utils/pdfExport.ts).  The document is the sequence *)
(* of the calls made on it.  The dates of the model lie in January 1970.   *)

\* Number.prototype.toFixed(1).
ToFixed1(q) ==
    IF ~IsFinite(q)
    THEN IF q.num = 0 THEN "NaN" ELSE IF q.num > 0 THEN "Infinity" ELSE "-Infinity"
    ELSE LET tenths == (20 * Abs(q.num) + q.den) \div (2 * q.den)
             digits == ToString(tenths \div 10) \o "." \o ToString(tenths % 10)
         IN  IF q.num < 0 THEN "-" \o digits ELSE digits

\* rate * 100
Percent(q) == IF IsFinite(q) THEN Div(q.num * 100, q.den) ELSE q

\* format(date, 'MMM dd, yyyy') and format(date, 'yyyy-MM-dd').
DayOfMonth(t) ==
    LET d == DateOf(t) + 1
    IN  IF d < 10 THEN "0" \o ToString(d) ELSE ToString(d)
FormatLong(t) == "Jan " \o DayOfMonth(t) \o ", 1970"
FormatISO(t) == "1970-01-" \o DayOfMonth(t)

SetFontSize(size) == [op |-> "setFontSize", size |-> size]
Text(text, x, y) == [op |-> "text", text |-> text, x |-> x, y |-> y]
AddPage == [op |-> "addPage"]
Save(name) == [op |-> "save", name |-> name]

\* autoTable(doc, {startY, head, body, theme: 'striped'}): the table is
\* drawn from startY down, a head row and a row for each entry of body,
\* and doc.lastAutoTable.finalY is where it ends.
AutoTable(startY, head, body) ==
    [op |-> "autoTable", startY |-> startY, head |-> head, body |-> body,
     finalY |-> startY + 8 * (Len(body) + 1)]

\* The heading of a section that follows a table.
HeadingY(finalY) == finalY + 20

\* The next table starting where the heading is.
StartYAtHeading(finalY) == finalY + 20

\* startY: doc.lastAutoTable.finalY + 25
StartY(finalY) == finalY + 25

\* .map((entry) => [entry.name, entry.value.toString()])
ValueRows(entries) ==
    [i \in DOMAIN entries |-> <<entries[i].name, ToString(entries[i].value)>>]
\* .map((entry) => [entry.name, entry.count.toString()])
CountRows(entries) ==
    [i \in DOMAIN entries |-> <<entries[i].name, ToString(entries[i].count)>>]

metricsData(m) ==
    << <<"Total Patients", ToString(m.totalPatients)>>,
       <<"Critical Cases", ToString(m.criticalCases)>>,
       <<"Medications Given", ToString(m.medicationsGiven)>>,
       <<"Lab Tests", ToString(m.labTests)>>,
       <<"Average Stay Duration", ToFixed1(m.averageStayDuration) \o " days">>,
       <<"Bed Occupancy Rate", ToFixed1(Percent(m.bedOccupancyRate)) \o "%">>,
       <<"Readmission Rate", ToFixed1(Percent(m.readmissionRate)) \o "%">>,
       <<"Mortality Rate", ToFixed1(Percent(m.mortalityRate)) \o "%">> >>

\* generatePDF(data) called at instant today.
generatePDF(data, today) ==
    LET keyMetrics == AutoTable(50, <<"Metric", "Value">>, metricsData(data.metrics))
        status == AutoTable(StartY(keyMetrics.finalY), <<"Status", "Count">>,
                            ValueRows(data.activities.patientStatusDistribution))
        daily == AutoTable(StartY(status.finalY), <<"Activity", "Count">>,
                           ValueRows(data.activities.dailyActivities))
        procedures == AutoTable(25, <<"Procedure", "Count">>,
                                CountRows(data.activities.topProcedures))
        diagnoses == AutoTable(StartY(procedures.finalY), <<"Diagnosis", "Count">>,
                               CountRows(data.activities.commonDiagnoses))
    IN  << SetFontSize(20), Text("ICU Performance Report", 20, 20),
           SetFontSize(12),
           Text("Period: " \o FormatLong(data.dateRange.startDate) \o " - "
                    \o FormatLong(data.dateRange.endDate), 20, 30),
           SetFontSize(16), Text("Key Metrics", 20, 45), keyMetrics,
           SetFontSize(16),
           Text("Patient Status Distribution", 20, HeadingY(keyMetrics.finalY)),
           status,
           SetFontSize(16), Text("Daily Activities", 20, HeadingY(status.finalY)),
           daily,
           AddPage,
           SetFontSize(16), Text("Top Procedures", 20, 20), procedures,
           SetFontSize(16),
           Text("Common Diagnoses", 20, HeadingY(procedures.finalY)), diagnoses,
           Save("ICU-Report-" \o FormatISO(today) \o ".pdf") >>

\* The page exports what the hook holds.
ExportPDF ==
    /\ ~loading
    /\ pdf' = generatePDF([metrics |-> metrics, activities |-> activities,
                           dateRange |-> dateRange], now)
    /\ UNCHANGED <<store, now, errorClass, lastToast, hookVars, formVars>>
    /\ UNCHANGED <<previousRange, report, admits>>

\* The wards of the report page.
ReportStores == {WardStore, ScenarioStore} \cup StayStores \cup DiagnosisStores

\* The previous windows the caller chooses from.
PreviousWindows == {NoWindow} \cup Windows

ReportInit ==
    /\ store \in ReportStores
    /\ errorClass = "object"
    /\ dateRange \in Windows
    /\ HookInit
    /\ FormInit
    /\ PageInit

ReportNext ==
    \/ StartFetch
    \/ \E r \in DOMAIN reqs, t \in TableNames : RespondData(r, t)
    \/ \E r \in DOMAIN reqs : Resume(r)
    \/ \E previous \in PreviousWindows : AssembleReport(previous)
    \/ ExportPDF

\* One request, then the report assembled and exported.
SpecReport == ReportInit /\ [][ReportNext]_vars

---------------------------------------------------------------------------
(* Properties of the report page. *)

\* d is the number c - p, for finite c and p.
IsDifference(d, c, p) ==
    /\ IsFinite(d)
    /\ d.num * (c.den * p.den) = (c.num * p.den - p.num * c.den) * d.den

HasComparison == report.assembled /\ "comparison" \in DOMAIN report

\* C21: the comparison of a report holds the previous window's metrics as
\* previousPeriod, and as changes the difference current - previous, negative
\* ones included, of totalPatients, criticalCases, averageStayDuration,
\* bedOccupancyRate, readmissionRate and mortalityRate, and of no other
\* field: not of medicationsGiven, not of labTests.
C21_ChangesAreDifferences ==
    HasComparison =>
        LET current == report.metrics
            previous == report.comparison.previousPeriod
            changes == report.comparison.changes
        IN  /\ DOMAIN report.comparison = {"previousPeriod", "changes"}
            /\ previous = MetricsOver(previousRange)
            /\ DOMAIN changes =
                   {"totalPatients", "criticalCases", "averageStayDuration",
                    "bedOccupancyRate", "readmissionRate", "mortalityRate"}
            /\ \A f \in {"totalPatients", "criticalCases"} :
                   changes[f] = current[f] - previous[f]
            /\ \A f \in {"averageStayDuration", "bedOccupancyRate",
                         "readmissionRate", "mortalityRate"} :
                   IF IsFinite(current[f]) /\ IsFinite(previous[f])
                   THEN IsDifference(changes[f], current[f], previous[f])
                   ELSE ~IsFinite(changes[f])

\* A comparison with a negative delta of a count and of a rate.
C21_Witness ==
    /\ HasComparison
    /\ report.comparison.changes.totalPatients < 0
    /\ report.comparison.changes.bedOccupancyRate.num < 0
    /\ report.comparison.changes.averageStayDuration.num # 0

\* C22: an assembled report carries a comparison exactly when the caller
\* supplied a previous window; without one the report is the metrics and
\* the activities alone, and assembling it raises no error.
C22_ComparisonIffPreviousWindow ==
    report.assembled =>
        /\ HasComparison <=> previousRange # NoWindow
        /\ previousRange = NoWindow =>
               /\ DOMAIN report = {"assembled", "metrics", "activities"}
               /\ error = NoError
        /\ report.metrics = metrics
        /\ report.activities = activities

\* A report of a populated ward assembled without a previous window.
C22_Witness ==
    /\ report.assembled
    /\ previousRange = NoWindow
    /\ ~HasComparison
    /\ report.metrics.totalPatients > 0

\* The texts, tables and page breaks of a document, in order.
Layout(doc) ==
    LET calls == SelectSeq(doc, LAMBDA c : c.op \in {"text", "autoTable", "addPage"})
    IN  [i \in DOMAIN calls |->
            CASE calls[i].op = "text"      -> calls[i].text
              [] calls[i].op = "autoTable" -> calls[i].head
              [] OTHER                     -> "addPage"]

PeriodLines ==
    {"Period: " \o FormatLong(a) \o " - " \o FormatLong(b) : a, b \in Times}

\* The page call i of the document draws on.
PageOf(i) == 1 + Cardinality({j \in 1..(i - 1) : pdf[j].op = "addPage"})
TableCalls == {i \in DOMAIN pdf : pdf[i].op = "autoTable"}
\* Table j is the table after table i, on the same page.
NextOnPage(i, j) ==
    /\ i < j
    /\ PageOf(i) = PageOf(j)
    /\ \A k \in TableCalls : ~(i < k /\ k < j)

\* C23: a document holds, in this order, the title, the period line, the
\* Key Metrics table of exactly 8 rows, the Patient Status Distribution
\* table, the Daily Activities table, a page break, the Top Procedures
\* table and the Common Diagnoses table; the page break before Top
\* Procedures is the only one; every table after the first of its page
\* starts 25 units below the end of the table before it.
C23_DocumentLayout ==
    pdf # <<>> =>
        LET layout == Layout(pdf)
        IN  /\ Len(layout) = 13
            /\ layout[1] = "ICU Performance Report"
            /\ layout[2] \in PeriodLines
            /\ SubSeq(layout, 3, 13) =
                   << "Key Metrics", <<"Metric", "Value">>,
                      "Patient Status Distribution", <<"Status", "Count">>,
                      "Daily Activities", <<"Activity", "Count">>,
                      "addPage",
                      "Top Procedures", <<"Procedure", "Count">>,
                      "Common Diagnoses", <<"Diagnosis", "Count">> >>
            /\ \A i \in TableCalls :
                   pdf[i].head = <<"Metric", "Value">> => Len(pdf[i].body) = 8
            /\ \A i, j \in TableCalls :
                   NextOnPage(i, j) => pdf[j].startY = pdf[i].finalY + 25

\* A document whose tables of statuses and diagnoses have several rows.
C23_Witness ==
    /\ pdf # <<>>
    /\ \E i, j \in TableCalls :
           /\ pdf[i].head = <<"Status", "Count">> /\ Len(pdf[i].body) >= 2
           /\ pdf[j].head = <<"Diagnosis", "Count">> /\ Len(pdf[j].body) >= 2

---------------------------------------------------------------------------
(* The hook with one request at a time: the caller supplies the next       *)
(* dateRange when no fetchReportData is running.                           *)

\* Responses without an error and without data so far.
NumNoData ==
    Cardinality({<<r, t>> \in (DOMAIN reqs) \X TableNames :
                    /\ reqs[r].resp[t].arrived
                    /\ ~HasError(reqs[r].resp[t])
                    /\ ~reqs[r].resp[t].hasData})

\* The response of query t of request r arrives with neither data nor error.
RespondNoData(r, t) ==
    /\ reqs[r].pc = "await"
    /\ NextToArrive(r, t)
    /\ NumNoData < MaxNoData
    /\ reqs' = [reqs EXCEPT ![r].resp[t] = NoDataResponse]
    /\ UNCHANGED <<store, now, errorClass, pageVars, lastToast, formVars>>
    /\ UNCHANGED <<dateRange, effectPending, supplied, metrics, activities, loading, error>>

InFlight == \E r \in DOMAIN reqs : reqs[r].pc = "await"

\* The caller changes the dateRange once the request before has ended.
ChangeDateRangeWhenIdle(w) ==
    /\ ~InFlight
    /\ ChangeDateRange(w)

SequentialNext ==
    \/ \E w \in Windows : ChangeDateRangeWhenIdle(w)
    \/ StartFetch
    \/ \E r \in DOMAIN reqs, t \in TableNames : RespondData(r, t)
    \/ \E r \in DOMAIN reqs, t \in TableNames : RespondNoData(r, t)
    \/ \E r \in DOMAIN reqs, t \in TableNames : RespondError(r, t)
    \/ \E r \in DOMAIN reqs : Resume(r)

\* Requests that do not overlap.
SpecSequential == Init /\ [][SequentialNext]_vars

\* The rows of table t dated from start to end, both included, in the
\* order of the table.
RowsBetween(t, start, end) ==
    LET inside == {i \in DOMAIN store[t] :
                      /\ start <= store[t][i][DateColumn(t)]
                      /\ store[t][i][DateColumn(t)] <= end}
    IN  [k \in 1..Cardinality(inside) |->
            store[t][CHOOSE i \in inside : Cardinality({j \in inside : j < i}) = k - 1]]

\* C24: the data of each of the five responses of a request is exactly the
\* rows of its table dated from the start to the end of the request's
\* window, both ends included, the same window for all five; a response
\* with neither an error nor data gives fetchReportData an empty collection.
C24_InclusiveWindowOrEmpty ==
    \A r \in DOMAIN reqs : \A t \in TableNames :
        (reqs[r].resp[t].arrived /\ ~HasError(reqs[r].resp[t])) =>
            IF reqs[r].resp[t].hasData
            THEN /\ reqs[r].resp[t].data =
                        RowsBetween(t, reqs[r].dateRange.startDate,
                                    reqs[r].dateRange.endDate)
                 /\ Fetched(r, t) = reqs[r].resp[t].data
            ELSE Fetched(r, t) = <<>>

\* A request that has ended with success: its patients are a row dated at
\* the start of the window and a row dated at its end, a row of the table
\* is left out, and one response had no data.
C24_Witness ==
    \E r \in DOMAIN reqs :
        /\ Succeeded(r)
        /\ \E i, j \in DOMAIN Fetched(r, "patients") :
               /\ Fetched(r, "patients")[i].admission_date = reqs[r].dateRange.startDate
               /\ Fetched(r, "patients")[j].admission_date = reqs[r].dateRange.endDate
        /\ Len(Fetched(r, "patients")) < Len(store.patients)
        /\ \E t \in TableNames :
               ~reqs[r].resp[t].hasData /\ store[t] # <<>> /\ Fetched(r, t) = <<>>
        /\ metrics = MetricsOf(r)

\* C27: with requests that do not overlap, whenever no request is in
\* flight, error is non-null exactly when the request that ended last
\* failed.
C27_ErrorOfLastRequest ==
    (~InFlight /\ reqs # <<>>) => (error # NoError <=> Failed(Len(reqs)))

\* A failed request followed by a successful one: error is null again.
C27_Witness ==
    /\ Len(reqs) = 2
    /\ Done(1) /\ Failed(1)
    /\ Succeeded(2)
    /\ error = NoError

\* C28: loading and error belong to the hook, not to a request.  Every
\* request that ends sets loading to false, whether or not a later request
\* is still in flight; one that failed sets error, and one that succeeded
\* writes its metrics and leaves error as it is, so that the failure of an
\* older request that ended after a newer one started stays in error when
\* the newer one succeeds.
C28_LoadingAndErrorPerHook ==
    [][\A r \in DOMAIN reqs :
          ResumeStep(r) =>
              /\ loading' = FALSE
              /\ IF Failed(r)
                 THEN error' # NoError
                 ELSE error' = error /\ metrics' = MetricsOf(r)]_vars

\* The older request failed after the newer one started, and the newer one
\* has succeeded: its metrics are shown, with the older request's error.
C28_Witness ==
    /\ Len(reqs) = 2
    /\ Done(1) /\ Failed(1)
    /\ Succeeded(2)
    /\ metrics = MetricsOf(2)
    /\ error # NoError
    /\ ~loading

---------------------------------------------------------------------------
(* Properties of DischargeForm.handleSubmit. *)

\* C25: handleSubmit writes in the order: insert of the discharge, update
\* of the patient's status, closure of the active medications,
\* notification.  A failed insert or a failed update ends the run with
\* nothing further written; a failed closure of the medications does not.
C25_DischargeWritesInOrder ==
    [][/\ (form.pc = "idle" /\ form'.pc # "idle") => form'.pc = "insertDischarge"
       /\ form.pc = "insertDischarge" =>
              \/ form'.pc = "updatePatient" /\ Len(store'.discharges) = Len(store.discharges) + 1
              \/ form'.pc = "idle" /\ store' = store
              \/ form' = form
       /\ form.pc = "updatePatient" =>
              \/ form'.pc = "updateMedications" /\ store'.discharges = store.discharges
              \/ form'.pc = "idle" /\ store' = store
              \/ form' = form
       /\ form.pc = "updateMedications" =>
              \/ form'.pc = "notify" /\ store'.patients = store.patients
              \/ form' = form
       /\ form.pc = "notify" =>
              \/ form' = NoForm /\ store'.medications = store.medications
              \/ form' = form]_vars

\* The older form has updated the patient and waits for its insert.
C25_Witness ==
    /\ form.version = "part_001"
    /\ form.pc = "insertDischarge"
    /\ store.discharges = <<>>
    /\ \E i \in DOMAIN store.patients :
           store.patients[i].id = form.patient_id /\ store.patients[i].status = "Discharged"

\* Patient id has a discharge record.
HasDischargeRecord(id) ==
    \E i \in DOMAIN store.discharges : store.discharges[i].patient_id = id

\* C26: the insert of the discharge record and the update of the patient's
\* status take effect together or not at all: once handleSubmit has ended,
\* a patient has a discharge record exactly when the patient's status is
\* 'Discharged'.
C26_DischargeIsTransaction ==
    form.pc = "idle" =>
        \A i \in DOMAIN store.patients :
            HasDischargeRecord(store.patients[i].id)
                <=> store.patients[i].status = "Discharged"

\* handleSubmit of part_003 has ended in its catch block after the insert:
\* the discharge is recorded and the patient is still 'Critical'.
C26_Witness ==
    /\ form.version = "part_003"
    /\ form.pc = "idle"
    /\ lastToast = "Failed to discharge patient. Please try again."
    /\ HasDischargeRecord(form.patient_id)
    /\ \E i \in DOMAIN store.patients :
           store.patients[i].id = form.patient_id /\ store.patients[i].status = "Critical"

---------------------------------------------------------------------------
(* AdmitPatientForm (src/src/components/AdmitPatientForm.tsx).  Each await *)
(* of handleSubmit ends a step; admits[s].pc is the query handleSubmit of  *)
(* session s waits for.  The fields of the form other than mrn and         *)
(* bed_number are filled in and valid.                                     *)

\* A row of patients as the form inserts it.
AdmittedPatient(id, mrn, bed_number, status, at) ==
    [id |-> id, mrn |-> mrn, status |-> status, diagnosis |-> "Sepsis",
     admission_date |-> at, bed_number |-> bed_number]

\* What is typed into the inputs 'mrn' and 'bed_number'.
MrnInputs == MRNs \cup {" "}
BedInputs == {"B1", "B2"}

\* handleChange of the form of session s.
handleChangeAdmit(s, name, value) ==
    /\ admits[s].pc = "idle"
    /\ admits[s][name] # value
    /\ admits' = [admits EXCEPT ![s][name] = value]
    /\ UNCHANGED <<store, now, errorClass, lastToast, hookVars, formVars>>
    /\ UNCHANGED <<previousRange, report, pdf>>

\* validateForm: the message of the first check that fails, "" if none.
validateAdmitForm(s) ==
    IF Trim(admits[s].mrn) = "" THEN "MRN is required"
    ELSE IF Trim(admits[s].bed_number) = "" THEN "Bed number is required"
    ELSE ""

\* handleSubmit up to its first await.  The browser submits the form only
\* with its required fields filled; the button is disabled while loading.
SubmitAdmit(s) ==
    /\ admits[s].pc = "idle"
    /\ ~admits[s].loading
    /\ admits[s].mrn # "" /\ admits[s].bed_number # ""
    /\ Len(store.patients) < MaxAdmitted
    /\ IF validateAdmitForm(s) # ""
       THEN /\ lastToast' = validateAdmitForm(s)
            /\ UNCHANGED <<admits, route>>
       ELSE IF ~loggedIn
       THEN /\ lastToast' = "Please log in again"
            /\ route' = "/login"
            /\ UNCHANGED admits
       ELSE /\ admits' = [admits EXCEPT ![s].loading = TRUE, ![s].pc = "checkMrn"]
            /\ UNCHANGED <<lastToast, route>>
    /\ UNCHANGED <<store, now, errorClass, hookVars, form, loggedIn>>
    /\ UNCHANGED <<previousRange, report, pdf>>

\* The catch block, then finally.
AdmitFailed(s) ==
    /\ lastToast' = "Failed to admit patient. Please try again."
    /\ admits' = [admits EXCEPT ![s].loading = FALSE, ![s].pc = "idle"]
    /\ UNCHANGED <<store, route>>

\* A toast, return, then finally.
AdmitRejected(s, message) ==
    /\ lastToast' = message
    /\ admits' = [admits EXCEPT ![s].loading = FALSE, ![s].pc = "idle"]
    /\ UNCHANGED <<store, route>>

\* .single(): the row when the query selects exactly one, and no data with
\* the error PGRST116 when it selects none or several.  The number of rows
\* of patients with this mrn.
RowsWithMrn(mrn) ==
    Cardinality({i \in DOMAIN store.patients : store.patients[i].mrn = mrn})

\* The bed check with .eq('status', 'Discharged').
RowsInBedDischarged(bed_number) ==
    Cardinality({i \in DOMAIN store.patients :
                    /\ store.patients[i].bed_number = bed_number
                    /\ store.patients[i].status = "Discharged"})

\* .eq('bed_number', bed_number).neq('status', 'Discharged')
RowsInBed(bed_number) ==
    Cardinality({i \in DOMAIN store.patients :
                    /\ store.patients[i].bed_number = bed_number
                    /\ store.patients[i].status # "Discharged"})

\* The query for the MRN answers.
CheckMrn(s, ok) ==
    /\ admits[s].pc = "checkMrn"
    /\ IF ~ok THEN AdmitFailed(s)
       ELSE IF RowsWithMrn(admits[s].mrn) = 1
       THEN AdmitRejected(s, "A patient with this MRN already exists")
       ELSE /\ admits' = [admits EXCEPT ![s].pc = "checkBed"]
            /\ UNCHANGED <<store, lastToast, route>>
    /\ UNCHANGED <<now, errorClass, hookVars, form, loggedIn>>
    /\ UNCHANGED <<previousRange, report, pdf>>

\* The query for the bed answers.
CheckBed(s, ok) ==
    /\ admits[s].pc = "checkBed"
    /\ IF ~ok THEN AdmitFailed(s)
       ELSE IF RowsInBed(admits[s].bed_number) = 1
       THEN AdmitRejected(s, "This bed is already occupied")
       ELSE /\ admits' = [admits EXCEPT ![s].pc = "insert"]
            /\ UNCHANGED <<store, lastToast, route>>
    /\ UNCHANGED <<now, errorClass, hookVars, form, loggedIn>>
    /\ UNCHANGED <<previousRange, report, pdf>>

\* The insert made only if the table holds no row with the MRN.
InsertPatientIfNew(s, ok) ==
    /\ admits[s].pc = "insert"
    /\ IF ok /\ RowsWithMrn(admits[s].mrn) = 0
       THEN /\ store' = [store EXCEPT !.patients =
                          Append(@, AdmittedPatient(Len(@) + 1, admits[s].mrn,
                                                    admits[s].bed_number,
                                                    admits[s].status, now))]
            /\ admits' = [admits EXCEPT ![s].pc = "notify",
                                        ![s].newPatient = Len(store.patients) + 1]
            /\ UNCHANGED <<lastToast, route>>
       ELSE AdmitFailed(s)
    /\ UNCHANGED <<now, errorClass, hookVars, form, loggedIn>>
    /\ UNCHANGED <<previousRange, report, pdf>>

\* The insert into patients answers.
InsertPatient(s, ok) ==
    /\ admits[s].pc = "insert"
    /\ IF ok
       THEN /\ store' = [store EXCEPT !.patients =
                          Append(@, AdmittedPatient(Len(@) + 1, admits[s].mrn,
                                                    admits[s].bed_number,
                                                    admits[s].status, now))]
            /\ admits' = [admits EXCEPT ![s].pc = "notify",
                                        ![s].newPatient = Len(store.patients) + 1]
            /\ UNCHANGED <<lastToast, route>>
       ELSE AdmitFailed(s)
    /\ UNCHANGED <<now, errorClass, hookVars, form, loggedIn>>
    /\ UNCHANGED <<previousRange, report, pdf>>

\* The notification handleSubmit inserts.
AdmitNotification(s) ==
    [type |-> "status", severity |-> "info", patient_id |-> admits[s].newPatient]

\* The insert into notifications answers; its error is not looked at.
\* handleSubmit runs to its end and navigates to the patient's page.
NotifyAdmission(s, ok) ==
    /\ admits[s].pc = "notify"
    /\ store' = IF ok
                THEN [store EXCEPT !.notifications = Append(@, AdmitNotification(s))]
                ELSE store
    /\ lastToast' = "Patient admitted successfully"
    /\ route' = "/patients/id"
    /\ admits' = [admits EXCEPT ![s] = NoAdmission]
    /\ UNCHANGED <<now, errorClass, hookVars, form, loggedIn>>
    /\ UNCHANGED <<previousRange, report, pdf>>

\* The tables before the admissions: no two patients with one MRN, no two
\* patients that are not discharged in one bed.
AdmitWards ==
    { [ patients |-> ps, medications |-> <<>>, lab_results |-> <<>>,
        discharges |-> <<>>, vitals |-> <<>>, notifications |-> <<>> ] :
      ps \in { <<>>,
               << AdmittedPatient(1, "MRN-1", "B1", "Critical", TimeOf(0)) >>,
               << AdmittedPatient(1, "MRN-1", "B1", "Discharged", TimeOf(0)) >> } }

AdmitInit ==
    /\ store \in AdmitWards
    /\ errorClass = "object"
    /\ dateRange = Window(0, 1)
    /\ HookInit
    /\ FormInit
    /\ PageInit

\* A step of handleSubmit of session s after its first await.
AdmitStep(s) ==
    \/ \E ok \in BOOLEAN : CheckMrn(s, ok)
    \/ \E ok \in BOOLEAN : CheckBed(s, ok)
    \/ \E ok \in BOOLEAN : InsertPatient(s, ok)
    \/ \E ok \in BOOLEAN : NotifyAdmission(s, ok)

AdmitNext ==
    \/ \E s \in Sessions, mrn \in MrnInputs : handleChangeAdmit(s, "mrn", mrn)
    \/ \E s \in Sessions, bed \in BedInputs : handleChangeAdmit(s, "bed_number", bed)
    \/ \E s \in Sessions : SubmitAdmit(s)
    \/ \E s \in Sessions : AdmitStep(s)

\* The forms of two sessions, their submissions interleaved.
SpecAdmit == AdmitInit /\ [][AdmitNext]_vars

\* No handleSubmit is running in a session other than s.
OthersIdle(s) == \A o \in Sessions \ {s} : admits[o].pc = "idle"

\* The form of session s is submitted while no other submission runs.
SubmitAdmitAlone(s) ==
    /\ OthersIdle(s)
    /\ SubmitAdmit(s)

AdmitSequentialNext ==
    \/ \E s \in Sessions, mrn \in MrnInputs : handleChangeAdmit(s, "mrn", mrn)
    \/ \E s \in Sessions, bed \in BedInputs : handleChangeAdmit(s, "bed_number", bed)
    \/ \E s \in Sessions : SubmitAdmitAlone(s)
    \/ \E s \in Sessions : AdmitStep(s)

\* The forms of two sessions, one submission at a time.
SpecAdmitSequential == AdmitInit /\ [][AdmitSequentialNext]_vars

---------------------------------------------------------------------------
(* Properties of AdmitPatientForm.handleSubmit. *)

\* No two patients with one MRN, and no two patients that are not
\* discharged in one bed.
UniqueMrnAndBed ==
    \A i, j \in DOMAIN store.patients :
        i # j =>
            /\ store.patients[i].mrn # store.patients[j].mrn
            /\ (store.patients[i].status # "Discharged"
                    /\ store.patients[j].status # "Discharged")
                   => store.patients[i].bed_number # store.patients[j].bed_number

\* The submission of session s, not yet through its checks, would break
\* the condition: its MRN is a patient's, or its bed is that of a patient
\* who is not discharged.
Violating(s) ==
    /\ admits[s].pc \in {"checkMrn", "checkBed"}
    /\ \E i \in DOMAIN store.patients :
           \/ store.patients[i].mrn = admits[s].mrn
           \/ /\ store.patients[i].bed_number = admits[s].bed_number
              /\ store.patients[i].status # "Discharged"

\* C29: from tables without two patients of one MRN and without two
\* patients that are not discharged in one bed, submissions that do not
\* overlap keep the tables so, and the readmission rate over the patients
\* is 0; a submission that would break the condition ends without a
\* patient and without a notification inserted.
C29_SequentialAdmissionsUnique ==
    /\ UniqueMrnAndBed
    /\ [][/\ UniqueMrnAndBed'
          /\ readmissionRate(store'.patients) = Zero
          /\ \A s \in Sessions :
                 (Violating(s) /\ admits'[s] # admits[s]) =>
                     /\ store' = store
                     /\ admits'[s].pc \in {"checkBed", "idle"}
                     /\ admits[s].pc = "checkBed" => admits'[s].pc = "idle"]_vars

\* A patient has been admitted, and then a submission for the patient's
\* bed has been rejected: one patient, one notification.
C29_Witness ==
    /\ Len(store.patients) = 1
    /\ Len(store.notifications) = 1
    /\ lastToast = "This bed is already occupied"
    /\ \A s \in Sessions : admits[s].pc = "idle"
    /\ \E s \in Sessions :
           /\ admits[s].bed_number = store.patients[1].bed_number
           /\ admits[s].mrn # store.patients[1].mrn

\* C30: the two checks and the insert are separate steps, and nothing ties
\* the insert to the checks: once the checks of a submission have passed,
\* its insert adds its row whatever has been inserted meanwhile, so two
\* interleaved submissions with one MRN, or one bed, both insert.
C30_InsertAfterStaleChecks ==
    \A s \in Sessions :
        admits[s].pc = "insert" =>
            ENABLED (/\ InsertPatient(s, TRUE)
                     /\ Len(store'.patients) = Len(store.patients) + 1
                     /\ store'.patients[Len(store'.patients)].mrn = admits[s].mrn)

\* Two patients with one MRN in one bed, neither discharged.
C30_Witness ==
    \E i, j \in DOMAIN store.patients :
        /\ i # j
        /\ store.patients[i].mrn = store.patients[j].mrn
        /\ store.patients[i].bed_number = store.patients[j].bed_number
        /\ store.patients[i].status # "Discharged"
        /\ store.patients[j].status # "Discharged"

=============================================================================
